---- MODULE Spec2Model ----
(***************************************************************************)
(* A model of the daemon's HTTP RPC gateway, src/src/rpc/RpcServer.cpp:    *)
(* the route table registered by the constructor, the middleware every     *)
(* routed request passes through, failRequest, handleOptions and the six   *)
(* handlers.  One action handles one request from start to end; the state  *)
(* after the action is the response the transport sends, together with    *)
(* the collaborator calls and the log lines the request produced.          *)
(* SpecMiddleware calls the middleware with any route and handler,         *)
(* SpecLifecycle runs start(), listen() and stop(), and SpecInfoReads      *)
(* takes info read by read beside the node's other subsystems.             *)
(*                                                                         *)
(* Text is a sequence of string parts (what operator<< appended, in        *)
(* order); JSON written by the rapidjson Writer is a value record          *)
(* [t, s, n, a], an object being the ordered sequence of its members.      *)
(***************************************************************************)
EXTENDS Integers, Sequences, FiniteSets, TLC

(***************************************************************************)
(* Bounds of the model                                                     *)
(***************************************************************************)
\* longest tx_as_hex string posted, in characters
MaxHexLen == 2

\* largest in-range outs_count posted (a wrapped one is added to these)
MaxOutsCount == 2

\* longest amounts array posted
MaxAmounts == 2

(***************************************************************************)
(* Integer widths                                                          *)
(***************************************************************************)
Pow2(n) == 2 ^ n

U16(n) == n % Pow2(16)

(***************************************************************************)
(* Text                                                                    *)
(***************************************************************************)
DigitChars == <<"0", "1", "2", "3", "4", "5", "6", "7", "8", "9">>

RECURSIVE Dec(_)
\* operator<< of an unsigned integer: its decimal digits
Dec(n) == IF n < 10 THEN <<DigitChars[n + 1]>>
          ELSE Dec(n \div 10) \o <<DigitChars[(n % 10) + 1]>>

\* Utilities::formatAmount: the amount rendered in coin units
formatAmount(amount) == <<"formatAmount(">> \o Dec(amount) \o <<")">>

(***************************************************************************)
(* JSON values, as the rapidjson Writer emits them                         *)
(***************************************************************************)
NoBody == [t |-> "none", s |-> <<>>, n |-> 0, a |-> <<>>]

JString(parts) == [t |-> "string", s |-> parts, n |-> 0, a |-> <<>>]

JUint(num) == [t |-> "uint", s |-> <<>>, n |-> num, a |-> <<>>]

JBool(b) == [t |-> "bool", s |-> <<>>, n |-> IF b THEN 1 ELSE 0, a |-> <<>>]

JArray(elems) == [t |-> "array", s |-> <<>>, n |-> 0, a |-> elems]

JObject(members) == [t |-> "object", s |-> <<>>, n |-> 0, a |-> members]

Member(k, v) == [key |-> k, val |-> v]

(***************************************************************************)
(* Request bodies.  A raw body is either text that is not JSON (the empty  *)
(* string included) or the text of a JSON object, given by its members.    *)
(***************************************************************************)
Absent == [t |-> "absent", s |-> <<>>, n |-> 0, a |-> <<>>]

NullDocument == [tx_as_hex |-> Absent, outs_count |-> Absent, amounts |-> Absent]

TextBody(text) == [kind |-> "text", text |-> text, doc |-> NullDocument]

JsonBody(doc) == [kind |-> "json", text |-> "", doc |-> doc]

EmptyBody == TextBody("")

\* rapidjson Document::Parse(...).HasParseError()
HasParseError(body) == body.kind # "json"

\* rapidjson Document::Parse: the document, left Null on a parse error
Parse(body) == IF HasParseError(body) THEN NullDocument ELSE body.doc

\* std::string::empty() of the raw body
BodyEmpty(body) == body.kind = "text" /\ body.text = ""

(***************************************************************************)
(* The server: its configuration, fixed by the constructor, and what the   *)
(* last handled request left behind.                                       *)
(***************************************************************************)
VARIABLES
    m_corsHeader,   \* the configured CORS origin, "" when CORS is off
    m_rpcMode,      \* the configured permission level
    m_feeAddress,   \* the configured fee address, "" when no fee is charged
    m_feeAmount,    \* the configured fee amount
    req,            \* the request handled last
    route,          \* the route it matched: handler, permission, body flag
    res,            \* the response to it
    invoked,        \* whether the route's handler was called
    outcome,        \* what the handler returned or threw, and the body it wrote
    calls,          \* the Ledger / SyncManager calls the handler made, in order
    reads,          \* what the Ledger, PeerNet and SyncManager answered to its reads
    logged,         \* the log lines the request produced, in order
    escaped,        \* whether an exception left the middleware
    stage,          \* where the request is: "idle" with none, "handler", or where it ended
    parseFailures,  \* the responses given so far to bodies that failed to parse
    owner,          \* where the thread that owns the server is in start() / stop()
    m_serverThread, \* the listener thread m_serverThread holds, 0 when not joinable
    spawned,        \* the thread start() has constructed and not yet assigned
    listeners,      \* the listener threads: where each is in listen()
    is_running,     \* the transport's accept loop is running
    svr_sock,       \* the transport's listening socket
    process,        \* "up" until std::terminate or exit(1) ends the process
    live,           \* the Ledger, PeerNet and SyncManager as they are now
    infoPc          \* the read the info handler makes next, 0 when it is not running

vars == <<m_corsHeader, m_rpcMode, m_feeAddress, m_feeAmount, req, route, res, invoked, outcome, calls, reads,
          logged, escaped, stage, parseFailures, owner, m_serverThread, spawned,
          listeners, is_running, svr_sock, process, live, infoPc>>

\* the state of start(), listen() and stop()
lifecycle == <<owner, m_serverThread, spawned, listeners, is_running, svr_sock,
               process>>

(***************************************************************************)
(* RpcMode, the permission levels in their order                           *)
(***************************************************************************)
Default == 0

BlockExplorerEnabled == 1

AllMethodsEnabled == 2

RpcModes == {Default, BlockExplorerEnabled, AllMethodsEnabled}

(***************************************************************************)
(* Error: a code and a message; SUCCESS is the code of "no error"          *)
(***************************************************************************)
SUCCESS == 0

CANT_GET_FAKE_OUTPUTS == 26

Error(code, message) == [code |-> code, message |-> message]

NoError == Error(SUCCESS, <<>>)

\* Error::operator bool
IsError(error) == error.code # SUCCESS

(***************************************************************************)
(* httplib::Response and the log                                           *)
(***************************************************************************)
NewResponse == [status |-> 0, body |-> NoBody, contentType |-> "", headers |-> {}]

set_header(r, name, value) == [r EXCEPT !.headers = @ \cup {<<name, value>>}]

set_content(r, content, type) == [r EXCEPT !.body = content, !.contentType = type]

has_header(request, name) == name \in request.headers

LogLine(level, msg) == [level |-> level, msg |-> msg]

IncomingLine(request) ==
    LogLine("DEBUG", <<"Incoming ", request.method, " request: ", request.path>>)

(***************************************************************************)
(* What a handler call comes to: it returned {error, statusCode} or threw, *)
(* and left res, collaborator calls and log lines behind.                  *)
(***************************************************************************)
Returned(error, statusCode, r, cs, ls) ==
    [threw |-> "none", what |-> <<>>, error |-> error, statusCode |-> statusCode,
     res |-> r, calls |-> cs, logged |-> ls]

Threw(kind, what, r, cs, ls) ==
    [threw |-> kind, what |-> what, error |-> NoError, statusCode |-> 0,
     res |-> r, calls |-> cs, logged |-> ls]

\* what the middleware sees of a handler call
Seen(out) ==
    [threw |-> out.threw, what |-> out.what, error |-> out.error,
     statusCode |-> out.statusCode, body |-> out.res.body]

NoOutcome == Seen(Returned(NoError, 0, NewResponse, <<>>, <<>>))

(***************************************************************************)
(* RpcServer::failRequest                                                  *)
(***************************************************************************)
\* (mutation) the failure written in the envelope of a handler error
failRequestAsEnvelope(port, body, r) ==
    [set_content(r,
         JObject(<<Member("errorCode", JUint(port)),
                   Member("errorMessage", JString(body))>>),
         "application/json")
     EXCEPT !.status = port]

failRequest(port, body, r) ==
    [set_content(r,
         JObject(<<Member("status", JString(<<"Failed">>)),
                   Member("error", JString(body))>>),
         "application/json")
     EXCEPT !.status = port]

(***************************************************************************)
(* RpcServer::middleware, gate by gate                                     *)
(***************************************************************************)
\* the header set whether or not an origin is configured
CorsHeaderSetAlways(r) ==
    set_header(r, "Access-Control-Allow-Origin", m_corsHeader)

\* the CORS origin header, set before anything else
CorsHeaderSet(r) ==
    IF m_corsHeader # ""
    THEN set_header(r, "Access-Control-Allow-Origin", m_corsHeader)
    ELSE r

\* the body gate: a body-required route got a body that does not parse
ParseGateFails(request, bodyRequired) ==
    bodyRequired /\ HasParseError(request.body)

\* the warning streamed, and logged, for a non-empty body that does not parse
ParseWarning(request) ==
    <<"Warning: received body is not JSON encoded!\n",
      "Key/value parameters are NOT supported.\n",
      "Body:\n", request.body.text>>

\* the contents of the stream handed to failRequest on a parse failure
ParseFailureMessage(request) ==
    (IF ~BodyEmpty(request.body) THEN ParseWarning(request) ELSE <<>>)
        \o <<"Failed to parse request body as JSON">>

ParseFailureLog(request) ==
    IF ~BodyEmpty(request.body)
    THEN <<LogLine("INFO", ParseWarning(request))>>
    ELSE <<>>

\* (mutation) the comparison with its operands exchanged
PermissionGateFailsSwapped(routePermissions) == m_rpcMode > routePermissions

\* the permission gate
PermissionGateFails(routePermissions) == routePermissions > m_rpcMode

PermissionMessage(routePermissions) ==
    <<"You do not have permission to access this method. Please ",
      "relaunch your daemon with the --enable-blockexplorer">>
        \o (IF routePermissions = AllMethodsEnabled THEN <<"-detailed">> ELSE <<>>)
        \o <<" command line option to access this method.">>

\* (mutation) the handler's own status kept for an error result
HandlerErrorStatusProposed(statusCode) == statusCode

\* the status given to a handler result that signals an error
HandlerErrorStatus(statusCode) == 400

\* the body written for a handler result that signals an error
ErrorEnvelope(error) ==
    JObject(<<Member("errorCode", JUint(error.code)),
              Member("errorMessage", JString(error.message))>>)

\* the handler returned {error, statusCode}
HandlerReturned(out) ==
    IF IsError(out.error)
    THEN [set_content(out.res, ErrorEnvelope(out.error), "application/json")
          EXCEPT !.status = HandlerErrorStatus(out.statusCode)]
    ELSE [out.res EXCEPT !.status = out.statusCode]

\* (mutation) a bad argument answered as an internal error
CaughtInvalidArgumentAs500(out) == failRequest(500, out.what, out.res)

\* catch (const std::invalid_argument &e)
CaughtInvalidArgument(out) == failRequest(400, out.what, out.res)

\* catch (const std::exception &e)
CaughtException(out) ==
    failRequest(500, <<"Internal server error: ">> \o out.what, out.res)

\* whether a catch clause of the middleware takes what the handler threw
Catches(threw) == threw \in {"invalid_argument", "exception"}

CaughtLog(out) ==
    IF out.threw = "invalid_argument"
    THEN <<LogLine("FATAL",
             <<"Caught JSON exception, likely missing required json parameter: ">>
                 \o out.what)>>
    ELSE <<LogLine("FATAL", <<"Caught unexpected exception: ">> \o out.what)>>

\* the try block and its catch clauses
HandlerDone(out) ==
    CASE out.threw = "none" -> HandlerReturned(out)
      [] out.threw = "invalid_argument" /\ Catches(out.threw) -> CaughtInvalidArgument(out)
      [] out.threw # "none" /\ Catches(out.threw) -> CaughtException(out)
      [] OTHER -> out.res

\* the document the handler is given
jsonBodyOf(request, bodyRequired) ==
    IF bodyRequired THEN Parse(request.body) ELSE NullDocument

\* gates that look at the permission before they look at the body
GatePermissionFirst(request, routePermissions, bodyRequired) ==
    IF PermissionGateFails(routePermissions) THEN "permission"
    ELSE IF ParseGateFails(request, bodyRequired) THEN "parse"
    ELSE "pass"

\* the two gates in the order the middleware has them: the gate that stops
\* the request, or "pass"
Gate(request, routePermissions, bodyRequired) ==
    IF ParseGateFails(request, bodyRequired) THEN "parse"
    ELSE IF PermissionGateFails(routePermissions) THEN "permission"
    ELSE "pass"

\* The whole middleware.  out is what the call of the bound handler,
\* handler(request, CorsHeaderSet(r0), jsonBodyOf(request, bodyRequired)),
\* comes to; it is looked at only if both gates let the request through.
middleware(request, r0, routePermissions, bodyRequired, out) ==
    LET r1 == CorsHeaderSet(r0)
        gate == Gate(request, routePermissions, bodyRequired)
    IN  IF gate = "parse"
        THEN [res |-> failRequest(400, ParseFailureMessage(request), r1),
              invoked |-> FALSE, outcome |-> NoOutcome,
              calls |-> <<>>, escaped |-> FALSE,
              logged |-> <<IncomingLine(request)>> \o ParseFailureLog(request),
              stage |-> "parse"]
        ELSE IF gate = "permission"
        THEN [res |-> failRequest(403, PermissionMessage(routePermissions), r1),
              invoked |-> FALSE, outcome |-> NoOutcome,
              calls |-> <<>>, escaped |-> FALSE,
              logged |-> <<IncomingLine(request)>>,
              stage |-> "permission"]
        ELSE [res |-> HandlerDone(out),
              invoked |-> TRUE, outcome |-> Seen(out), calls |-> out.calls,
              escaped |-> out.threw # "none" /\ ~Catches(out.threw),
              logged |-> <<IncomingLine(request)>> \o out.logged
                           \o (IF out.threw # "none" /\ Catches(out.threw)
                               THEN CaughtLog(out) ELSE <<>>),
              stage |-> IF out.threw = "none" THEN "returned" ELSE "threw"]

(***************************************************************************)
(* Reading the parsed body (JsonHelper): a missing member, or one of the   *)
(* wrong type, throws std::invalid_argument.                               *)
(***************************************************************************)
MissingParameter(key) == <<"Missing JSON parameter: '", key, "'">>

WrongType(expected, got) ==
    <<"JSON parameter is wrong type. Expected ", expected, ", got ", got>>

\* whether getStringFromJSON / getUint64FromJSON / getArrayFromJSON throws
JsonThrows(doc, key, type) == doc[key].t # type

\* what() of the exception it throws
JsonWhat(doc, key, type) ==
    IF doc[key].t = "absent" THEN MissingParameter(key)
    ELSE WrongType(type, doc[key].t)

(***************************************************************************)
(* Common::fromHex, Common::podToHex, Crypto::cn_fast_hash                 *)
(***************************************************************************)
HexChars == <<"0", "1", "2", "3", "4", "5", "6", "7", "8", "9",
              "a", "b", "c", "d", "e", "f">>

UpperHexChars == <<"0", "1", "2", "3", "4", "5", "6", "7", "8", "9",
                   "A", "B", "C", "D", "E", "F">>

IsHexChar(c) == \E i \in 1..16 : HexChars[i] = c \/ UpperHexChars[i] = c

HexValue(c) == (CHOOSE i \in 1..16 : HexChars[i] = c \/ UpperHexChars[i] = c) - 1

\* fromHex succeeds on an even number of hex digits
fromHexOk(text) ==
    /\ Len(text) % 2 = 0
    /\ \A i \in 1..Len(text) : IsHexChar(text[i])

\* the bytes fromHex stores: one per pair of digits
fromHex(text) ==
    [i \in 1..(Len(text) \div 2) |->
        HexValue(text[2 * i - 1]) * 16 + HexValue(text[2 * i])]

\* lower-case hex of a byte sequence
toHex(bytes) ==
    [i \in 1..(2 * Len(bytes)) |->
        IF i % 2 = 1 THEN HexChars[(bytes[(i + 1) \div 2] \div 16) + 1]
        ELSE HexChars[(bytes[i \div 2] % 16) + 1]]

\* the content hash of a byte sequence, as podToHex and operator<< print it
HashText(bytes) == <<"cn_fast_hash(">> \o toHex(bytes) \o <<")">>

\* podToHex of a public key
KeyText(key) == <<"out_key(">> \o Dec(key) \o <<")">>

(***************************************************************************)
(* Collaborator calls, as the handlers make them                           *)
(***************************************************************************)
AddTransactionToPool(bytes, answer) ==
    [op |-> "addTransactionToPool", bytes |-> bytes, amount |-> 0, count |-> 0,
     success |-> answer.success, error |-> answer.error, indexes |-> <<>>]

RelayTransactions(bytes) ==
    [op |-> "relayTransactions", bytes |-> bytes, amount |-> 0, count |-> 0,
     success |-> TRUE, error |-> "", indexes |-> <<>>]

GetRandomOutputs(amount, count, answer) ==
    [op |-> "getRandomOutputs", bytes |-> <<>>, amount |-> amount, count |-> count,
     success |-> answer.success, error |-> answer.error,
     indexes |-> answer.globalIndexes]

(***************************************************************************)
(* RpcServer::sendTransaction.  admit is what Core::addTransactionToPool   *)
(* answers if it is called.                                                *)
(***************************************************************************)
\* (mutation) the relay made whether or not the pool took the transaction
sendTransactionCallsRelayAlways(transaction, admit) ==
    <<AddTransactionToPool(transaction, admit), RelayTransactions(transaction)>>

\* the Ledger and SyncManager calls made once the hex decoded
sendTransactionCalls(transaction, admit) ==
    <<AddTransactionToPool(transaction, admit)>>
        \o (IF admit.success THEN <<RelayTransactions(transaction)>> ELSE <<>>)

\* (mutation) the two admission branches exchanged
sendTransactionResultSwapped(transaction, admit) ==
    <<Member("transactionHash", JString(HashText(transaction)))>>
        \o (IF admit.success
            THEN <<Member("status", JString(<<"Failed">>)),
                   Member("error", JString(<<admit.error>>))>>
            ELSE <<Member("status", JString(<<"OK">>)),
                   Member("error", JString(<<>>))>>)

\* the body written once the hex decoded
sendTransactionResult(transaction, admit) ==
    <<Member("transactionHash", JString(HashText(transaction)))>>
        \o (IF ~admit.success
            THEN <<Member("status", JString(<<"Failed">>)),
                   Member("error", JString(<<admit.error>>))>>
            ELSE <<Member("status", JString(<<"OK">>)),
                   Member("error", JString(<<>>))>>)

sendTransactionLog(transaction, admit) ==
    <<LogLine("DEBUG", <<"Attempting to add transaction ">> \o HashText(transaction)
                          \o <<" from /sendrawtransaction to pool">>)>>
        \o (IF ~admit.success
            THEN <<LogLine("INFO", <<"Failed to add transaction ">>
                             \o HashText(transaction)
                             \o <<" from /sendrawtransaction to pool: ", admit.error>>)>>
            ELSE <<>>)

\* the status sendTransaction returns
sendTransactionStatus == 200

sendTransaction(request, r, body, admit) ==
    IF JsonThrows(body, "tx_as_hex", "string")
    THEN Threw("invalid_argument", JsonWhat(body, "tx_as_hex", "string"), r, <<>>, <<>>)
    ELSE LET rawData == body.tx_as_hex.s
             transaction == fromHex(rawData)
         IN  IF ~fromHexOk(rawData)
             THEN Returned(NoError, sendTransactionStatus,
                      set_content(r,
                          JObject(<<Member("status", JString(<<"Failed">>)),
                                    Member("error", JString(
                                        <<"Failed to parse transaction from hex buffer">>))>>),
                          "application/json"),
                      <<>>, <<>>)
             ELSE Returned(NoError, sendTransactionStatus,
                      set_content(r, JObject(sendTransactionResult(transaction, admit)),
                                  "application/json"),
                      sendTransactionCalls(transaction, admit),
                      sendTransactionLog(transaction, admit))

(***************************************************************************)
(* RpcServer::getRandomOuts.  answers[i] is what Core::getRandomOutputs    *)
(* answers for the i-th amount if it is asked.                             *)
(***************************************************************************)
\* the count handed to Core::getRandomOutputs
RequestedCount(numOutputs) == U16(numOutputs)

\* whether the outputs found for an amount are not as many as wanted
CountMismatch(found, numOutputs) == found # numOutputs

NotEnoughOutputs(amount, numOutputs, found) ==
    <<"Failed to get enough matching outputs for amount ">> \o Dec(amount)
        \o <<" (">> \o formatAmount(amount) \o <<"). Requested outputs: ">>
        \o Dec(numOutputs) \o <<", found outputs: ">> \o Dec(found)
        \o <<". Further explanation here: https://gist.github.com/zpalmtree/80b3e80463225bcfb8f8432043cb594c",
             "\n",
             "Note: If you are a public node operator, you can safely ignore this message. ",
             "It is only relevant to the user sending the transaction.">>

\* one element of "outs": the amount and its outputs, in the Ledger's order
OutsEntry(amount, answer) ==
    JObject(<<Member("amount", JUint(amount)),
              Member("outs", JArray(
                  [i \in 1..Len(answer.globalIndexes) |->
                      JObject(<<Member("global_amount_index",
                                       JUint(answer.globalIndexes[i])),
                                Member("out_key",
                                       JString(KeyText(answer.publicKeys[i])))>>)]))>>)

\* the status getRandomOuts returns, with an error as without
getRandomOutsStatus == 200

\* a loop that asks the Ledger about every amount before it reports the
\* first failure
RandomOutsLoopQueriesAll(amounts, numOutputs, answers, i, entries, cs) ==
    LET rest == i..Len(amounts)
        failing == {k \in rest :
                       \/ ~answers[k].success
                       \/ CountMismatch(Len(answers[k].globalIndexes), numOutputs)}
        allCalls == cs \o [k \in 1..(Len(amounts) - i + 1) |->
                              GetRandomOutputs(amounts[k + i - 1],
                                               RequestedCount(numOutputs),
                                               answers[k + i - 1])]
        first == CHOOSE k \in failing : \A j \in failing : k <= j
    IN  IF failing = {}
        THEN [error |-> NoError,
              entries |-> entries \o [k \in 1..(Len(amounts) - i + 1) |->
                              OutsEntry(amounts[k + i - 1], answers[k + i - 1])],
              calls |-> allCalls]
        ELSE [error |-> IF ~answers[first].success
                        THEN Error(CANT_GET_FAKE_OUTPUTS, <<answers[first].error>>)
                        ELSE Error(CANT_GET_FAKE_OUTPUTS,
                                   NotEnoughOutputs(amounts[first], numOutputs,
                                       Len(answers[first].globalIndexes))),
              entries |-> entries, calls |-> allCalls]

RECURSIVE RandomOutsLoop(_, _, _, _, _, _)
\* the loop over amounts from position i on; entries and cs are what the
\* earlier iterations wrote and called
RandomOutsLoop(amounts, numOutputs, answers, i, entries, cs) ==
    IF i > Len(amounts)
    THEN [error |-> NoError, entries |-> entries, calls |-> cs]
    ELSE LET amount == amounts[i]
             answer == answers[i]
             call == GetRandomOutputs(amount, RequestedCount(numOutputs), answer)
         IN  IF ~answer.success
             THEN [error |-> Error(CANT_GET_FAKE_OUTPUTS, <<answer.error>>),
                   entries |-> entries, calls |-> Append(cs, call)]
             ELSE IF CountMismatch(Len(answer.globalIndexes), numOutputs)
             THEN [error |-> Error(CANT_GET_FAKE_OUTPUTS,
                                   NotEnoughOutputs(amount, numOutputs,
                                                    Len(answer.globalIndexes))),
                   entries |-> entries, calls |-> Append(cs, call)]
             ELSE RandomOutsLoop(amounts, numOutputs, answers, i + 1,
                                 Append(entries, OutsEntry(amount, answer)),
                                 Append(cs, call))

getRandomOuts(request, r, body, answers) ==
    IF JsonThrows(body, "outs_count", "uint64")
    THEN Threw("invalid_argument", JsonWhat(body, "outs_count", "uint64"), r, <<>>, <<>>)
    ELSE IF JsonThrows(body, "amounts", "array")
    THEN Threw("invalid_argument", JsonWhat(body, "amounts", "array"), r, <<>>, <<>>)
    ELSE LET numOutputs == body.outs_count.n
             loop == RandomOutsLoop(body.amounts.a, numOutputs, answers, 1, <<>>, <<>>)
         IN  IF IsError(loop.error)
             THEN Returned(loop.error, getRandomOutsStatus, r, loop.calls, <<>>)
             ELSE Returned(NoError, getRandomOutsStatus,
                      set_content(r,
                          JObject(<<Member("outs", JArray(loop.entries)),
                                    Member("status", JString(<<"OK">>))>>),
                          "application/json"),
                      loop.calls, <<>>)

(***************************************************************************)
(* The read-only handlers.  node is what the Ledger, PeerNet and           *)
(* SyncManager answer to the reads of one request.                         *)
(***************************************************************************)
\* uint32_t arithmetic: the value of n in 32 bits, put together from its two
\* 16-bit halves (TLC's integers end below 2^31, so 2^32 is never formed)
U32(n) == (n % Pow2(16)) + Pow2(16) * ((n \div Pow2(16)) % Pow2(16))

\* uint64_t arithmetic: the value of n in 64 bits, as its four 16-bit limbs,
\* least significant first.  A negative n is its two's complement, so 0 - 1
\* is <<65535, 65535, 65535, 65535>>, which is 2^64 - 1.
U64(n) ==
    LET q1 == n \div Pow2(16)
        q2 == q1 \div Pow2(16)
        q3 == q2 \div Pow2(16)
    IN  <<n % Pow2(16), q1 % Pow2(16), q2 % Pow2(16), q3 % Pow2(16)>>

\* Writer::Uint64 of a 64-bit value w given by its limbs: a value TLC's
\* integers hold is the number JUint writes, a larger one keeps its limbs
JUint64(w) ==
    IF w[4] = 0 /\ w[3] = 0 /\ w[2] < Pow2(15)
    THEN JUint(w[1] + Pow2(16) * w[2])
    ELSE [t |-> "uint64", s |-> <<>>, n |-> 0, a |-> w]

Max(a, b) == IF a > b THEN a ELSE b

\* CryptoNote::parameters::DIFFICULTY_TARGET, the target block time in seconds
DIFFICULTY_TARGET == 30

\* a hashrate rounded to the nearest integer, halves upwards
hashrateNearest(difficulty) ==
    (2 * difficulty + DIFFICULTY_TARGET) \div (2 * DIFFICULTY_TARGET)

\* the number of binary digits of n
RECURSIVE BitLength(_)
BitLength(n) == IF n = 0 THEN 0 ELSE 1 + BitLength(n \div 2)

\* the conversion of the uint64_t q to double: the nearest value with a 53-bit
\* mantissa, a tie going to the even mantissa.  Below 2^53 it is q itself.
DoubleOf(q) ==
    LET ulp == Pow2(Max(0, BitLength(q) - 53))
        low == q \div ulp
        rest == q % ulp
    IN  IF 2 * rest > ulp \/ (2 * rest = ulp /\ low % 2 = 1)
        THEN (low + 1) * ulp
        ELSE low * ulp

\* round(difficulty / DIFFICULTY_TARGET): both operands are unsigned integers,
\* so the division has truncated before the quotient is converted to double
\* for round(), which finds an integral value and returns it
hashrate(difficulty) == DoubleOf(difficulty \div DIFFICULTY_TARGET)

\* CryptoNote::parameters::FORK_HEIGHTS, the heights of the network upgrades
FORK_HEIGHTS == <<187000, 350000>>

\* CryptoNote::parameters::FORK_HEIGHTS_SIZE
FORK_HEIGHTS_SIZE == Len(FORK_HEIGHTS)

\* CryptoNote::parameters::CURRENT_FORK_INDEX, counted from zero
CURRENT_FORK_INDEX == 1

\* PROJECT_VERSION
PROJECT_VERSION == "1.0.0"

\* info asks its collaborators in the order of node's uses below; the height
\* is a 32-bit sum widened to 64 bits, the two differences are 64-bit
info(request, r, body, node) ==
    LET height == U32(node.topBlockIndex + 1)
        networkHeight == Max(1, node.blockchainHeight)
        difficulty == node.difficulty
    IN  Returned(NoError, 200,
            set_content(r,
                JObject(<<
                    Member("height", JUint(height)),
                    Member("difficulty", JUint(difficulty)),
                    Member("tx_count", JUint64(U64(node.transactionCount - height))),
                    Member("tx_pool_size", JUint(node.poolTransactionCount)),
                    Member("alt_blocks_count", JUint(node.alternativeBlockCount)),
                    Member("outgoing_connections_count",
                           JUint(node.outgoingConnections)),
                    Member("incoming_connections_count",
                           JUint64(U64(node.connections - node.outgoingConnections))),
                    Member("white_peerlist_size", JUint(Len(node.whitePeers))),
                    Member("grey_peerlist_size", JUint(Len(node.grayPeers))),
                    Member("last_known_block_index",
                           JUint(U32(Max(1, node.observedHeight) - 1))),
                    Member("network_height", JUint(networkHeight)),
                    Member("upgrade_heights",
                           JArray([i \in 1..Len(FORK_HEIGHTS) |->
                                      JUint(FORK_HEIGHTS[i])])),
                    Member("supported_height",
                           JUint(IF FORK_HEIGHTS_SIZE = 0
                                 THEN 0
                                 ELSE FORK_HEIGHTS[CURRENT_FORK_INDEX + 1])),
                    Member("hashrate", JUint(hashrate(difficulty))),
                    Member("synced", JBool(height = networkHeight)),
                    Member("major_version", JUint(node.majorVersion)),
                    Member("minor_version", JUint(node.minorVersion)),
                    Member("version", JString(<<PROJECT_VERSION>>)),
                    Member("status", JString(<<"OK">>)),
                    Member("start_time", JUint(node.startTime))>>),
                "application/json"),
            <<>>, <<>>)

\* a fee handler that answers 404 when no fee address is configured
feeNotFoundWhenUnset(request, r, body) ==
    Returned(NoError, IF m_feeAddress = "" THEN 404 ELSE 200,
        set_content(r,
            JObject(<<Member("address", JString(<<m_feeAddress>>)),
                      Member("amount", JUint(m_feeAmount)),
                      Member("status", JString(<<"OK">>))>>),
            "application/json"),
        <<>>, <<>>)

fee(request, r, body) ==
    Returned(NoError, 200,
        set_content(r,
            JObject(<<Member("address", JString(<<m_feeAddress>>)),
                      Member("amount", JUint(m_feeAmount)),
                      Member("status", JString(<<"OK">>))>>),
            "application/json"),
        <<>>, <<>>)

height(request, r, body, node) ==
    Returned(NoError, 200,
        set_content(r,
            JObject(<<Member("height", JUint(U32(node.topBlockIndex + 1))),
                      Member("network_height",
                             JUint(Max(1, node.blockchainHeight))),
                      Member("status", JString(<<"OK">>))>>),
            "application/json"),
        <<>>, <<>>)

peers(request, r, body, node) ==
    Returned(NoError, 200,
        set_content(r,
            JObject(<<Member("peers",
                          JArray([i \in 1..Len(node.whitePeers) |->
                                     JString(<<node.whitePeers[i]>>)])),
                      Member("peers_gray",
                          JArray([i \in 1..Len(node.grayPeers) |->
                                     JString(<<node.grayPeers[i]>>)])),
                      Member("status", JString(<<"OK">>))>>),
            "application/json"),
        <<>>, <<>>)

(***************************************************************************)
(* RpcServer::handleOptions: the wildcard route, outside the middleware    *)
(***************************************************************************)
\* the method list advertised
Supported == IF m_corsHeader = "" THEN "" ELSE "OPTIONS, GET, POST"

\* (mutation) the method list advertised as on a preflight, whatever the request
MethodsHeaderPreflight(request) == "Access-Control-Allow-Methods"

\* the header the method list is advertised in
MethodsHeader(request) ==
    IF has_header(request, "Access-Control-Request-Method")
    THEN "Access-Control-Allow-Methods"
    ELSE "Allow"

handleOptions(request, r0) ==
    LET r1 == set_header(r0, MethodsHeader(request), Supported)
        r2 == IF m_corsHeader # ""
              THEN set_header(
                       set_header(r1, "Access-Control-Allow-Origin", m_corsHeader),
                       "Access-Control-Allow-Headers",
                       "Origin, X-Requested-With, Content-Type, Accept, X-API-KEY")
              ELSE r1
    IN  [r2 EXCEPT !.status = 200]

(***************************************************************************)
(* The inputs: configurations, requests, and what the collaborators answer *)
(***************************************************************************)
CorsOrigins == {"", "https://wallet.example"}

\* fee address and amount; a non-empty address passed validateAddresses
FeeConfigs == {<<"", 0>>, <<"TRTLfeeAddress", 10>>}

SeqsUpTo(S, n) == UNION {[1..k -> S] : k \in 0..n}

\* hex strings over two digits and one character that is no digit
HexStrings == SeqsUpTo({"0", "a", "z"}, MaxHexLen)

\* a body that is not JSON: key/value parameters
KeyValueText == "tx_as_hex=00"

Uint64Value(num) == [t |-> "uint64", s |-> <<>>, n |-> num, a |-> <<>>]

Amounts == {100, 200}

UnparsableBodies == {EmptyBody, TextBody(KeyValueText)}

\* the bodies of sendTransaction requests: tx_as_hex absent, a string, a number
SendBodies ==
    UnparsableBodies
        \cup {JsonBody(NullDocument)}
        \cup {JsonBody([NullDocument EXCEPT !.tx_as_hex = JString(h)]) :
                 h \in HexStrings}
        \cup {JsonBody([NullDocument EXCEPT !.tx_as_hex = Uint64Value(0)])}

\* the bodies of getRandomOuts requests; outs_count takes the small values and
\* one above the 16-bit range
RandomBodies ==
    UnparsableBodies
        \cup {JsonBody([tx_as_hex |-> Absent, outs_count |-> c, amounts |-> a]) :
                 c \in {Absent}
                        \cup {Uint64Value(k) :
                                 k \in (0..MaxOutsCount) \cup {Pow2(16) + 1}},
                 a \in {Absent}
                        \cup {JArray(x) : x \in SeqsUpTo(Amounts, MaxAmounts)}}

Request(method, path, body, headers) ==
    [method |-> method, path |-> path, body |-> body, headers |-> headers]

NoRequest == Request("", "", EmptyBody, {})

\* what Core::addTransactionToPool can answer
AdmitAnswers ==
    {[success |-> TRUE, error |-> ""],
     [success |-> FALSE, error |-> "Transaction already exists in pool"]}

\* the outputs the Ledger holds for an amount, in the two orders it may give them
IndexOrders(k) == {[i \in 1..k |-> i - 1], [i \in 1..k |-> k - i]}

KeyOf(amount, index) == amount + index

\* what Core::getRandomOutputs can answer when asked for count outputs of amount
OutputAnswers(amount, count) ==
    {[success |-> FALSE, error |-> "Failed to get random outputs",
      globalIndexes |-> <<>>, publicKeys |-> <<>>]}
        \cup {[success |-> TRUE, error |-> "", globalIndexes |-> ix,
               publicKeys |-> [i \in DOMAIN ix |-> KeyOf(amount, ix[i])]] :
                 ix \in UNION {IndexOrders(k) : k \in 0..count}}

\* the answers to a whole getRandomOuts request, one per amount
AnswerArrays(body) ==
    IF body.outs_count.t = "uint64" /\ body.amounts.t = "array"
    THEN {f \in [DOMAIN body.amounts.a ->
                    UNION {OutputAnswers(x, RequestedCount(body.outs_count.n)) :
                              x \in Amounts}] :
             \A i \in DOMAIN f :
                 f[i] \in OutputAnswers(body.amounts.a[i],
                                        RequestedCount(body.outs_count.n))}
    ELSE {<<>>}

PeerLists == {<<>>, <<"10.0.0.1:11897">>}

\* what the Ledger, PeerNet and SyncManager can answer to the reads
Nodes ==
    {[topBlockIndex |-> top, blockchainHeight |-> net, observedHeight |-> net,
      difficulty |-> diff, transactionCount |-> top + 1 + pool,
      poolTransactionCount |-> pool, alternativeBlockCount |-> 0,
      connections |-> 1 + Len(white), outgoingConnections |-> 1,
      whitePeers |-> white, grayPeers |-> <<>>,
      majorVersion |-> 1, minorVersion |-> 0, startTime |-> 1] :
        top \in 0..1, net \in 0..2, diff \in {0, 45}, pool \in 0..1,
        white \in PeerLists}

\* no read has been answered
NoReads ==
    [topBlockIndex |-> 0, blockchainHeight |-> 0, observedHeight |-> 0,
     difficulty |-> 0, transactionCount |-> 0, poolTransactionCount |-> 0,
     alternativeBlockCount |-> 0, connections |-> 0, outgoingConnections |-> 0,
     whitePeers |-> <<>>, grayPeers |-> <<>>,
     majorVersion |-> 0, minorVersion |-> 0, startTime |-> 0]

(***************************************************************************)
(* The route table the constructor registers                               *)
(***************************************************************************)
Route(method, path, handler, routePermissions, bodyRequired) ==
    [method |-> method, path |-> path, handler |-> handler,
     routePermissions |-> routePermissions, bodyRequired |-> bodyRequired]

InfoRoute == Route("GET", "/info", "info", Default, FALSE)

FeeRoute == Route("GET", "/fee", "fee", Default, FALSE)

HeightRoute == Route("GET", "/height", "height", Default, FALSE)

\* /peers registered for block explorers only
PeersRouteExplorer == Route("GET", "/peers", "peers", BlockExplorerEnabled, FALSE)

PeersRoute == Route("GET", "/peers", "peers", Default, FALSE)

SendTransactionRoute ==
    Route("POST", "/sendrawtransaction", "sendTransaction", Default, TRUE)

GetRandomOutsRoute == Route("POST", "/getrandom_outs", "getRandomOuts", Default, TRUE)

OptionsRoute(path) == Route("OPTIONS", path, "handleOptions", Default, FALSE)

NoRoute == Route("", "", "", Default, FALSE)

(***************************************************************************)
(* Init: the server as constructed, no request being handled               *)
(***************************************************************************)
\* the listener threads that can exist: the one m_serverThread holds and the
\* one a further start() constructs before it assigns it
ThreadIds == {1, 2}

\* a node that holds the genesis block and has met no peer
StartNode ==
    [NoReads EXCEPT !.transactionCount = 1, !.majorVersion = 1, !.startTime = 1]

Init ==
    /\ m_corsHeader \in CorsOrigins
    /\ m_rpcMode \in RpcModes
    /\ \E f \in FeeConfigs : m_feeAddress = f[1] /\ m_feeAmount = f[2]
    /\ req = NoRequest
    /\ route = NoRoute
    /\ res = NewResponse
    /\ invoked = FALSE
    /\ outcome = NoOutcome
    /\ calls = <<>>
    /\ reads = NoReads
    /\ logged = <<>>
    /\ escaped = FALSE
    /\ stage = "idle"
    /\ parseFailures = {}
    /\ owner = "constructed"
    /\ m_serverThread = 0
    /\ spawned = 0
    /\ listeners = [t \in ThreadIds |-> "none"]
    /\ is_running = FALSE
    /\ svr_sock = "invalid"
    /\ process = "up"
    /\ live = StartNode
    /\ infoPc = 0

\* a request went through the middleware and ended as done says
Routed(request, rt, done, node) ==
    /\ req' = request
    /\ route' = rt
    /\ res' = done.res
    /\ invoked' = done.invoked
    /\ outcome' = done.outcome
    /\ calls' = done.calls
    /\ reads' = node
    /\ logged' = done.logged
    /\ escaped' = done.escaped
    /\ stage' = done.stage
    /\ parseFailures' = IF done.stage = "parse"
                        THEN parseFailures \cup {[status |-> done.res.status,
                                                  body |-> done.res.body]}
                        ELSE parseFailures
    /\ infoPc' = 0
    /\ UNCHANGED <<m_corsHeader, m_rpcMode, m_feeAddress, m_feeAmount>>
    /\ UNCHANGED <<lifecycle, live>>

(***************************************************************************)
(* The router's lambda: a request to a route is passed, with a fresh       *)
(* response, to the middleware and the route's handler.  The handler is    *)
(* given the response as the middleware has it by then, and the document.  *)
(***************************************************************************)
HandlerRes == CorsHeaderSet(NewResponse)

HandlerBody(request, rt) == jsonBodyOf(request, rt.bodyRequired)

router(request, rt, out, node) ==
    Routed(request, rt,
        middleware(request, NewResponse, rt.routePermissions, rt.bodyRequired, out),
        node)

(***************************************************************************)
(* One action per route: one request, from the router to the response      *)
(***************************************************************************)
Info ==
    /\ stage = "idle"
    /\ \E node \in Nodes :
         LET request == Request("GET", "/info", EmptyBody, {})
         IN  router(request, InfoRoute,
                 info(request, HandlerRes, HandlerBody(request, InfoRoute), node),
                 node)

Fee ==
    /\ stage = "idle"
    /\ \E body \in UnparsableBodies :
         LET request == Request("GET", "/fee", body, {})
         IN  router(request, FeeRoute,
                 fee(request, HandlerRes, HandlerBody(request, FeeRoute)),
                 NoReads)

Height ==
    /\ stage = "idle"
    /\ \E node \in Nodes :
         LET request == Request("GET", "/height", EmptyBody, {})
         IN  router(request, HeightRoute,
                 height(request, HandlerRes, HandlerBody(request, HeightRoute), node),
                 node)

Peers ==
    /\ stage = "idle"
    /\ \E node \in Nodes :
         LET request == Request("GET", "/peers", EmptyBody, {})
         IN  router(request, PeersRoute,
                 peers(request, HandlerRes, HandlerBody(request, PeersRoute), node),
                 node)

SendTransaction ==
    /\ stage = "idle"
    /\ \E body \in SendBodies, admit \in AdmitAnswers :
         LET request == Request("POST", "/sendrawtransaction", body, {})
         IN  router(request, SendTransactionRoute,
                 sendTransaction(request, HandlerRes,
                                 HandlerBody(request, SendTransactionRoute), admit),
                 NoReads)

GetRandomOuts ==
    /\ stage = "idle"
    /\ \E body \in RandomBodies :
         \E answers \in AnswerArrays(body.doc) :
           LET request == Request("POST", "/getrandom_outs", body, {})
           IN  router(request, GetRandomOutsRoute,
                   getRandomOuts(request, HandlerRes,
                                 HandlerBody(request, GetRandomOutsRoute), answers),
                   NoReads)

\* the wildcard route: handleOptions, called without the middleware
Options ==
    /\ stage = "idle"
    /\ \E path \in {"/info", "/sendrawtransaction", "/anything"},
          headers \in {{}, {"Access-Control-Request-Method"}},
          body \in UnparsableBodies :
         LET request == Request("OPTIONS", path, body, headers)
         IN  /\ req' = request
             /\ route' = OptionsRoute(path)
             /\ res' = handleOptions(request, NewResponse)
             /\ invoked' = FALSE
             /\ outcome' = NoOutcome
             /\ calls' = <<>>
             /\ reads' = NoReads
             /\ logged' = <<IncomingLine(request)>>
             /\ escaped' = FALSE
             /\ stage' = "options"
             /\ UNCHANGED <<m_corsHeader, m_rpcMode, m_feeAddress, m_feeAmount,
                            parseFailures>>
             /\ UNCHANGED <<lifecycle, live, infoPc>>

\* the transport sends the response; the request and the response are gone
Respond ==
    /\ stage \notin {"idle", "handler"}
    /\ req' = NoRequest
    /\ route' = NoRoute
    /\ res' = NewResponse
    /\ invoked' = FALSE
    /\ outcome' = NoOutcome
    /\ calls' = <<>>
    /\ reads' = NoReads
    /\ logged' = <<>>
    /\ escaped' = FALSE
    /\ stage' = "idle"
    /\ UNCHANGED <<m_corsHeader, m_rpcMode, m_feeAddress, m_feeAmount,
                   parseFailures>>
    /\ UNCHANGED <<lifecycle, live, infoPc>>

Next ==
    \/ Info
    \/ Fee
    \/ Height
    \/ Peers
    \/ SendTransaction
    \/ GetRandomOuts
    \/ Options
    \/ Respond

Spec == Init /\ [][Next]_vars

(***************************************************************************)
(* The middleware on its own: called, as the router may call it, with any  *)
(* route permission, either body flag and any handler.  A handler may      *)
(* write a body, and returns {error, statusCode} or throws: a              *)
(* std::invalid_argument, another std::exception, or ("other") a value     *)
(* that is no std::exception and has no message.                           *)
(***************************************************************************)
HandlerBehaviours ==
    {[threw |-> "none", what |-> <<>>, error |-> e, statusCode |-> c, writes |-> w] :
        e \in {NoError, Error(CANT_GET_FAKE_OUTPUTS, <<"no outputs">>)},
        c \in {200, 201, 404},
        w \in BOOLEAN}
    \cup
    {[threw |-> k, what |-> <<"Missing JSON parameter: 'x'">>, error |-> NoError,
      statusCode |-> 0, writes |-> w] :
        k \in {"invalid_argument", "exception"},
        w \in BOOLEAN}
    \cup
    {[threw |-> "other", what |-> <<>>, error |-> NoError, statusCode |-> 0,
      writes |-> w] :
        w \in BOOLEAN}

AnyHandler(request, r, body, behaviour) ==
    LET written == IF behaviour.writes
                   THEN set_content(r, JObject(<<Member("status", JString(<<"OK">>))>>),
                                    "application/json")
                   ELSE r
    IN  IF behaviour.threw = "none"
        THEN Returned(behaviour.error, behaviour.statusCode, written, <<>>, <<>>)
        ELSE Threw(behaviour.threw, behaviour.what, written, <<>>, <<>>)

MiddlewareBodies == UnparsableBodies \cup {JsonBody(NullDocument)}

MiddlewareCall ==
    /\ stage = "idle"
    /\ \E body \in MiddlewareBodies, routePermissions \in RpcModes,
          bodyRequired \in BOOLEAN, behaviour \in HandlerBehaviours :
         LET request == Request("POST", "/route", body, {})
             rt == Route("POST", "/route", "handler", routePermissions, bodyRequired)
         IN  router(request, rt,
                 AnyHandler(request, HandlerRes, HandlerBody(request, rt), behaviour),
                 NoReads)

NextMiddleware ==
    \/ MiddlewareCall
    \/ Respond

SpecMiddleware == Init /\ [][NextMiddleware]_vars

(***************************************************************************)
(* start(), listen() and stop().  The owner of the server calls start()    *)
(* and stop() (the destructor is a stop()); each listener thread runs      *)
(* listen().  The transport's listen and stop are httplib's: listen binds, *)
(* marks the server running and accepts until the socket is closed; stop   *)
(* closes the socket of a running server and does nothing to one that is   *)
(* not running.                                                            *)
(***************************************************************************)
\* the owner is between two calls
Idle == owner \in {"constructed", "started", "stopped"}

\* the listener threads that exist
Existing == {t \in ThreadIds : listeners[t] # "none"}

\* start(), first half: std::thread(&RpcServer::listen, this) is constructed
StartSpawn ==
    /\ process = "up" /\ Idle
    /\ \E t \in ThreadIds :
         /\ listeners[t] = "none"
         /\ \A u \in ThreadIds : listeners[u] = "none" => t <= u
         /\ listeners' = [listeners EXCEPT ![t] = "spawned"]
         /\ spawned' = t
    /\ owner' = "start"
    /\ UNCHANGED <<m_serverThread, is_running, svr_sock, process>>

\* start(), second half: the new thread is move-assigned to m_serverThread;
\* assigning to a joinable std::thread calls std::terminate
StartAssign ==
    /\ process = "up" /\ owner = "start"
    /\ IF m_serverThread # 0
       THEN /\ process' = "terminated"
            /\ UNCHANGED <<owner, m_serverThread, spawned>>
       ELSE /\ m_serverThread' = spawned
            /\ spawned' = 0
            /\ owner' = "started"
            /\ UNCHANGED process
    /\ UNCHANGED <<listeners, is_running, svr_sock>>

\* listen(): m_server.listen binds and starts to accept, or fails (the port is
\* taken, as it is while another listener holds it) and listen() calls exit(1)
ListenBegin ==
    /\ process = "up"
    /\ \E t \in ThreadIds :
         /\ listeners[t] = "spawned"
         /\ \/ /\ ~is_running
               /\ listeners' = [listeners EXCEPT ![t] = "listening"]
               /\ is_running' = TRUE
               /\ svr_sock' = "open"
               /\ UNCHANGED process
            \/ /\ process' = "exited"
               /\ UNCHANGED <<listeners, is_running, svr_sock>>
    /\ UNCHANGED <<owner, m_serverThread, spawned>>

\* m_server.listen returns once the socket has been closed, and listen() ends
ListenReturn ==
    /\ process = "up"
    /\ \E t \in ThreadIds :
         /\ listeners[t] = "listening"
         /\ svr_sock = "invalid"
         /\ listeners' = [listeners EXCEPT ![t] = "returned"]
    /\ is_running' = FALSE
    /\ UNCHANGED <<owner, m_serverThread, spawned, svr_sock, process>>

\* m_server.stop(), the first statement of stop()
ServerStop(then) ==
    /\ process = "up" /\ Idle
    /\ svr_sock' = IF is_running THEN "invalid" ELSE svr_sock
    /\ owner' = then
    /\ UNCHANGED <<m_serverThread, spawned, listeners, is_running, process>>

\* if (m_serverThread.joinable()) m_serverThread.join(): join waits for the
\* listener thread to end
JoinIfJoinable(at, then) ==
    /\ process = "up" /\ owner = at
    /\ IF m_serverThread = 0
       THEN UNCHANGED <<m_serverThread, listeners>>
       ELSE /\ listeners[m_serverThread] = "returned"
            /\ listeners' = [listeners EXCEPT ![m_serverThread] = "none"]
            /\ m_serverThread' = 0
    /\ owner' = then
    /\ UNCHANGED <<spawned, is_running, svr_sock, process>>

StopSignal == ServerStop("stop")

StopJoin == JoinIfJoinable("stop", "stopped")

\* ~RpcServer(): stop(), after which the server is gone
DestructorSignal == ServerStop("destructor")

DestructorJoin == JoinIfJoinable("destructor", "destroyed")

\* what start(), listen() and stop() leave alone
RequestsUnchanged ==
    UNCHANGED <<m_corsHeader, m_rpcMode, m_feeAddress, m_feeAmount, req, route,
                res, invoked, outcome, calls, reads, logged, escaped, stage,
                parseFailures, live, infoPc>>

NextLifecycle ==
    \/ StartSpawn /\ RequestsUnchanged
    \/ StartAssign /\ RequestsUnchanged
    \/ ListenBegin /\ RequestsUnchanged
    \/ ListenReturn /\ RequestsUnchanged
    \/ StopSignal /\ RequestsUnchanged
    \/ StopJoin /\ RequestsUnchanged
    \/ DestructorSignal /\ RequestsUnchanged
    \/ DestructorJoin /\ RequestsUnchanged

SpecLifecycle == Init /\ [][NextLifecycle]_vars

\* The same, with the scheduling the threads get: a thread that can take its
\* next step takes it.  Whether and when the owner calls start() or stop() is
\* the owner's choice; a call once made runs on, and so does a listener.
SpecLifecycleFair ==
    /\ Init /\ [][NextLifecycle]_vars
    /\ WF_vars(StartAssign /\ RequestsUnchanged)
    /\ WF_vars(ListenBegin /\ RequestsUnchanged)
    /\ WF_vars(ListenReturn /\ RequestsUnchanged)
    /\ WF_vars(StopJoin /\ RequestsUnchanged)
    /\ WF_vars(DestructorJoin /\ RequestsUnchanged)

(***************************************************************************)
(* info, read by read.  The middleware logs the request, sets the CORS     *)
(* header and passes its gates; the handler then reads the Ledger, the     *)
(* SyncManager and PeerNet one call at a time, while the rest of the node  *)
(* adds and removes blocks, opens and closes connections and hears of      *)
(* peers' heights; the middleware ends the request with what it returns.   *)
(***************************************************************************)
\* the highest top block index the Ledger of the model reaches
MaxBlocks == 1

\* the most connections of either direction PeerNet holds
MaxConnections == 1

\* what the node's other subsystems leave alone
NodeOnly ==
    UNCHANGED <<m_corsHeader, m_rpcMode, m_feeAddress, m_feeAmount, req, route,
                res, invoked, outcome, calls, reads, logged, escaped, stage,
                parseFailures, lifecycle, infoPc>>

\* a block, with its coinbase transaction, is added to the main chain
AddBlock ==
    /\ live.topBlockIndex < MaxBlocks
    /\ live' = [live EXCEPT !.topBlockIndex = @ + 1, !.transactionCount = @ + 1]
    /\ NodeOnly

\* a reorganisation takes the top block, and its coinbase transaction, off
PopBlock ==
    /\ live.topBlockIndex > 0
    /\ live' = [live EXCEPT !.topBlockIndex = @ - 1, !.transactionCount = @ - 1]
    /\ NodeOnly

ConnectOutgoing ==
    /\ live.outgoingConnections < MaxConnections
    /\ live' = [live EXCEPT !.connections = @ + 1, !.outgoingConnections = @ + 1]
    /\ NodeOnly

ConnectIncoming ==
    /\ live.connections - live.outgoingConnections < MaxConnections
    /\ live' = [live EXCEPT !.connections = @ + 1]
    /\ NodeOnly

DisconnectOutgoing ==
    /\ live.outgoingConnections > 0
    /\ live' = [live EXCEPT !.connections = @ - 1, !.outgoingConnections = @ - 1]
    /\ NodeOnly

DisconnectIncoming ==
    /\ live.connections - live.outgoingConnections > 0
    /\ live' = [live EXCEPT !.connections = @ - 1]
    /\ NodeOnly

\* a peer reports its height
PeerHeight ==
    /\ \E h \in 0..(MaxBlocks + 1) :
         /\ h # live.observedHeight
         /\ live' = [live EXCEPT !.observedHeight = h, !.blockchainHeight = h]
    /\ NodeOnly

\* The middleware up to its call of the handler: the request is logged, the
\* CORS header set and the two gates looked at.  A request they let through is
\* in the handler, before its first read; one they stop ends here.
InfoArrive ==
    /\ stage = "idle" /\ infoPc = 0
    /\ LET request == Request("GET", "/info", EmptyBody, {})
       IN  IF Gate(request, InfoRoute.routePermissions, InfoRoute.bodyRequired)
                = "pass"
           THEN /\ req' = request
                /\ route' = InfoRoute
                /\ logged' = <<IncomingLine(request)>>
                /\ res' = CorsHeaderSet(NewResponse)
                /\ invoked' = TRUE
                /\ stage' = "handler"
                /\ infoPc' = 1
                /\ UNCHANGED <<m_corsHeader, m_rpcMode, m_feeAddress, m_feeAmount,
                               outcome, calls, reads, escaped, parseFailures,
                               lifecycle, live>>
           ELSE router(request, InfoRoute,
                    Returned(NoError, 0, HandlerRes, <<>>, <<>>), NoReads)

\* a read of the handler: the fields it takes from the node as it is now
InfoRead(at, answered) ==
    /\ stage = "handler" /\ infoPc = at
    /\ reads' = answered
    /\ infoPc' = at + 1
    /\ UNCHANGED <<m_corsHeader, m_rpcMode, m_feeAddress, m_feeAmount, req, route,
                   res, invoked, outcome, calls, logged, escaped, stage,
                   parseFailures, lifecycle, live>>

\* m_core->getTopBlockIndex()
InfoReadTopBlockIndex ==
    InfoRead(1, [NoReads EXCEPT !.topBlockIndex = live.topBlockIndex])

\* m_syncManager->getBlockchainHeight()
InfoReadBlockchainHeight ==
    InfoRead(2, [reads EXCEPT !.blockchainHeight = live.blockchainHeight])

\* m_core->getBlockDetails(height - 1).  The Ledger's reads are infallible: it
\* answers with block details also when the block of index height - 1 has
\* left the chain since the index was read; every block of the model has the
\* same version.
InfoReadBlockDetails ==
    InfoRead(3, [reads EXCEPT !.majorVersion = live.majorVersion,
                              !.minorVersion = live.minorVersion])

\* m_core->getDifficultyForNextBlock()
InfoReadDifficulty ==
    InfoRead(4, [reads EXCEPT !.difficulty = live.difficulty])

\* m_core->getBlockchainTransactionCount()
InfoReadTransactionCount ==
    InfoRead(5, [reads EXCEPT !.transactionCount = live.transactionCount])

\* m_core->getPoolTransactionCount()
InfoReadPoolTransactionCount ==
    InfoRead(6, [reads EXCEPT !.poolTransactionCount = live.poolTransactionCount])

\* m_core->getAlternativeBlockCount()
InfoReadAlternativeBlockCount ==
    InfoRead(7, [reads EXCEPT !.alternativeBlockCount = live.alternativeBlockCount])

\* m_p2p->get_connections_count()
InfoReadConnections ==
    InfoRead(8, [reads EXCEPT !.connections = live.connections])

\* m_p2p->get_outgoing_connections_count()
InfoReadOutgoing ==
    InfoRead(9, [reads EXCEPT !.outgoingConnections = live.outgoingConnections])

\* m_p2p->getPeerlistManager().get_white_peers_count()
InfoReadWhitePeers ==
    InfoRead(10, [reads EXCEPT !.whitePeers = live.whitePeers])

\* m_p2p->getPeerlistManager().get_gray_peers_count()
InfoReadGrayPeers ==
    InfoRead(11, [reads EXCEPT !.grayPeers = live.grayPeers])

\* m_syncManager->getObservedHeight()
InfoReadObservedHeight ==
    InfoRead(12, [reads EXCEPT !.observedHeight = live.observedHeight])

\* m_core->getStartTime()
InfoReadStartTime ==
    InfoRead(13, [reads EXCEPT !.startTime = live.startTime])

\* The handler writes the response from its reads and returns, and the
\* middleware's try block ends the request with what it returned.
InfoWrite ==
    /\ stage = "handler" /\ infoPc = 14
    /\ LET out == info(req, res, HandlerBody(req, route), reads)
           caught == out.threw # "none" /\ Catches(out.threw)
       IN  /\ res' = HandlerDone(out)
           /\ outcome' = Seen(out)
           /\ calls' = out.calls
           /\ escaped' = (out.threw # "none" /\ ~Catches(out.threw))
           /\ logged' = logged \o out.logged
                            \o (IF caught THEN CaughtLog(out) ELSE <<>>)
           /\ stage' = IF out.threw = "none" THEN "returned" ELSE "threw"
    /\ infoPc' = 0
    /\ UNCHANGED <<m_corsHeader, m_rpcMode, m_feeAddress, m_feeAmount, req, route,
                   invoked, reads, parseFailures, lifecycle, live>>

NextInfoReads ==
    \/ AddBlock
    \/ PopBlock
    \/ ConnectOutgoing
    \/ ConnectIncoming
    \/ DisconnectOutgoing
    \/ DisconnectIncoming
    \/ PeerHeight
    \/ InfoArrive
    \/ InfoReadTopBlockIndex
    \/ InfoReadBlockchainHeight
    \/ InfoReadBlockDetails
    \/ InfoReadDifficulty
    \/ InfoReadTransactionCount
    \/ InfoReadPoolTransactionCount
    \/ InfoReadAlternativeBlockCount
    \/ InfoReadConnections
    \/ InfoReadOutgoing
    \/ InfoReadWhitePeers
    \/ InfoReadGrayPeers
    \/ InfoReadObservedHeight
    \/ InfoReadStartTime
    \/ InfoWrite
    \/ Respond

SpecInfoReads == Init /\ [][NextInfoReads]_vars

(***************************************************************************)
(* Vocabulary of the properties                                            *)
(***************************************************************************)
Range(f) == {f[i] : i \in DOMAIN f}

\* the keys of a JSON object, in the order they were written
Keys(obj) == [i \in DOMAIN obj.a |-> obj.a[i].key]

HasKey(obj, k) == \E i \in DOMAIN obj.a : obj.a[i].key = k

\* the value of member k of a JSON object that has it
Get(obj, k) == obj.a[CHOOSE i \in DOMAIN obj.a : obj.a[i].key = k].val

\* the names of the headers of a response, and the values set for one name
HeaderNames(r) == {h[1] : h \in r.headers}

HeaderValues(r, name) == {h[2] : h \in {g \in r.headers : g[1] = name}}

\* text sub occurs in text msg, part by part
Names(msg, sub) ==
    \E k \in 0..(Len(msg) - Len(sub)) :
        \A i \in 1..Len(sub) : msg[k + i] = sub[i]

\* a request has been handled and its response is about to be sent
Handled == stage \notin {"idle", "handler"}

\* the request went through the middleware
ThroughMiddleware == Handled /\ route.handler # "handleOptions"

\* the request's body was required and did not parse
ParseFailed ==
    ThroughMiddleware /\ route.bodyRequired /\ HasParseError(req.body)

\* the request passed the body gate and its route asks for more than is configured
PermissionFailed ==
    ThroughMiddleware /\ ~ParseFailed /\ route.routePermissions > m_rpcMode

\* the handler was called and returned
HandlerReturnedNormally == ThroughMiddleware /\ invoked /\ outcome.threw = "none"

\* the handler was called and threw
HandlerThrew == ThroughMiddleware /\ invoked /\ outcome.threw # "none"

\* the response body is {"status": "Failed", "error": <msg>}
IsFailedBody(body, msg) ==
    /\ body.t = "object"
    /\ Keys(body) = <<"status", "error">>
    /\ Get(body, "status") = JString(<<"Failed">>)
    /\ Get(body, "error") = JString(msg)

\* the response body is {"errorCode": <code>, "errorMessage": <msg>}
IsErrorEnvelope(body, code, msg) ==
    /\ body.t = "object"
    /\ Keys(body) = <<"errorCode", "errorMessage">>
    /\ Get(body, "errorCode") = JUint(code)
    /\ Get(body, "errorMessage") = JString(msg)

(***************************************************************************)
(* C1.  getRandomOuts: when the Ledger reports failure for an amount, or   *)
(* returns a number of outputs other than outs_count, the response has     *)
(* status 200 and reports CANT_GET_FAKE_OUTPUTS with a message naming the  *)
(* amount, the requested count and the found count.                        *)
(***************************************************************************)
\* the getRandomOutputs calls of the request that failed or fell short
ShortCalls ==
    {i \in DOMAIN calls :
        /\ calls[i].op = "getRandomOutputs"
        /\ \/ ~calls[i].success
           \/ Len(calls[i].indexes) # req.body.doc.outs_count.n}

C1_RandomOutsFailureIs200 ==
    (Handled /\ route.handler = "getRandomOuts" /\ invoked /\ ShortCalls # {})
        => /\ res.status = 200
           /\ \E i \in ShortCalls :
                /\ res.body.t = "object"
                /\ HasKey(res.body, "errorCode")
                /\ Get(res.body, "errorCode") = JUint(CANT_GET_FAKE_OUTPUTS)
                /\ HasKey(res.body, "errorMessage")
                /\ LET msg == Get(res.body, "errorMessage").s
                   IN  /\ Names(msg, <<"amount ">> \o Dec(calls[i].amount))
                       /\ Names(msg, <<"Requested outputs: ">>
                                       \o Dec(req.body.doc.outs_count.n))
                       /\ Names(msg, <<", found outputs: ">>
                                       \o Dec(Len(calls[i].indexes)))

(***************************************************************************)
(* C2.  A handler that returns: if its Result signals an error the body is *)
(* the {errorCode, errorMessage} envelope of that Result and the status is *)
(* 400 whatever status it proposed; if it signals success the status is    *)
(* the proposed one and the body is the one the handler wrote.             *)
(***************************************************************************)
C2_ResultDecidesResponse ==
    HandlerReturnedNormally
        => IF outcome.error.code # SUCCESS
           THEN /\ IsErrorEnvelope(res.body, outcome.error.code, outcome.error.message)
                /\ res.status = 400
           ELSE /\ res.status = outcome.statusCode
                /\ res.body = outcome.body

\* an error Result with a proposed status other than 400, after a body was written
C2_Witness ==
    /\ HandlerReturnedNormally
    /\ outcome.error.code # SUCCESS
    /\ outcome.statusCode = 200
    /\ outcome.body # NoBody
    /\ res.status = 400

(***************************************************************************)
(* C3.  sendTransaction relays if and only if the pool admitted the        *)
(* decoded bytes: at most one relay, after the successful admission, with  *)
(* the admitted bytes; none after a hex-decode or an admission failure.    *)
(***************************************************************************)
SendHandled == Handled /\ route.handler = "sendTransaction"

AdmitCalls == {i \in DOMAIN calls : calls[i].op = "addTransactionToPool"}

RelayCalls == {i \in DOMAIN calls : calls[i].op = "relayTransactions"}

\* the posted body is JSON with a string tx_as_hex
HasHexString == req.body.kind = "json" /\ req.body.doc.tx_as_hex.t = "string"

PostedHex == req.body.doc.tx_as_hex.s

C3_RelayIffAdmitted ==
    SendHandled
        => /\ Cardinality(AdmitCalls) <= 1
           /\ Cardinality(RelayCalls) <= 1
           /\ (RelayCalls # {}) <=> (\E i \in AdmitCalls : calls[i].success)
           /\ \A j \in RelayCalls :
                \E i \in AdmitCalls :
                    i < j /\ calls[i].success /\ calls[j].bytes = calls[i].bytes
           /\ \A i \in AdmitCalls :
                HasHexString /\ fromHexOk(PostedHex) /\ calls[i].bytes = fromHex(PostedHex)
           /\ (HasHexString /\ ~fromHexOk(PostedHex)) => calls = <<>>

\* a transaction of one byte was admitted and relayed
C3_Witness ==
    /\ SendHandled
    /\ RelayCalls # {}
    /\ \A j \in RelayCalls : Len(calls[j].bytes) = 1

(***************************************************************************)
(* C4.  A sendTransaction request whose JSON body carries a string         *)
(* tx_as_hex ends with status 200; the body says "Failed" with an          *)
(* explanation on a hex-decode failure, "Failed" with the Ledger's reason  *)
(* on an admission failure, and "OK" with an empty error exactly when      *)
(* decode and admission both succeeded.                                    *)
(***************************************************************************)
C4_SendTransactionAlways200 ==
    (SendHandled /\ HasHexString)
        => /\ res.status = 200
           /\ res.body.t = "object"
           /\ HasKey(res.body, "status") /\ HasKey(res.body, "error")
           /\ ~fromHexOk(PostedHex)
                => IsFailedBody(res.body,
                                <<"Failed to parse transaction from hex buffer">>)
           /\ \A i \in AdmitCalls :
                ~calls[i].success
                    => /\ Get(res.body, "status") = JString(<<"Failed">>)
                       /\ Get(res.body, "error") = JString(<<calls[i].error>>)
           /\ (/\ Get(res.body, "status") = JString(<<"OK">>)
               /\ Get(res.body, "error") = JString(<<>>))
                <=> (/\ fromHexOk(PostedHex)
                     /\ \E i \in AdmitCalls : calls[i].success)

\* the pool refused a decoded transaction
C4_Witness ==
    /\ SendHandled /\ HasHexString
    /\ \E i \in AdmitCalls : ~calls[i].success
    /\ res.status = 200

(***************************************************************************)
(* C5.  A request that passed the body gate, on a route that requires a    *)
(* higher permission level than the configured one, gets status 403 and a  *)
(* body naming the option to enable (the -detailed one exactly when the    *)
(* route requires AllMethodsEnabled); the handler is not called.           *)
(***************************************************************************)
C5_PermissionDenied403 ==
    PermissionFailed
        => /\ res.status = 403
           /\ ~invoked
           /\ calls = <<>>
           /\ res.body.t = "object"
           /\ HasKey(res.body, "error")
           /\ LET msg == Get(res.body, "error").s
              IN  /\ "relaunch your daemon with the --enable-blockexplorer" \in Range(msg)
                  /\ ("-detailed" \in Range(msg))
                        <=> (route.routePermissions = AllMethodsEnabled)

\* a route for AllMethodsEnabled asked of a server in BlockExplorerEnabled mode
C5_Witness ==
    /\ PermissionFailed
    /\ route.routePermissions = AllMethodsEnabled
    /\ m_rpcMode = BlockExplorerEnabled
    /\ res.status = 403

(***************************************************************************)
(* C6.  On the body-required routes an empty or non-JSON body gets 400     *)
(* with the parse-failure message and the handler is not called; a JSON    *)
(* body lacking a field the handler requires gets 400 with a message       *)
(* naming a missing field, never 500.                                      *)
(***************************************************************************)
RequiredFields ==
    CASE route.handler = "sendTransaction" -> {"tx_as_hex"}
      [] route.handler = "getRandomOuts" -> {"outs_count", "amounts"}
      [] OTHER -> {}

MissingFields == {k \in RequiredFields : req.body.doc[k].t = "absent"}

C6_BadBodyIs400 ==
    (Handled /\ route.bodyRequired)
        => /\ HasParseError(req.body)
                => /\ res.status = 400
                   /\ ~invoked
                   /\ res.body.t = "object"
                   /\ HasKey(res.body, "error")
                   /\ LET msg == Get(res.body, "error").s
                      IN  msg[Len(msg)] = "Failed to parse request body as JSON"
           /\ (~HasParseError(req.body) /\ MissingFields # {})
                => /\ res.status = 400
                   /\ res.body.t = "object"
                   /\ HasKey(res.body, "error")
                   /\ \E k \in MissingFields :
                        Get(res.body, "error").s = <<"Missing JSON parameter: '", k, "'">>

\* getRandomOuts was called with outs_count but without amounts
C6_Witness ==
    /\ Handled /\ route.handler = "getRandomOuts"
    /\ invoked
    /\ MissingFields = {"amounts"}
    /\ res.status = 400

(***************************************************************************)
(* C7.  No exception of a handler leaves the middleware: a bad-argument    *)
(* exception becomes a 400 whose error is its message, any other one a 500 *)
(* whose error is "Internal server error: " and its message, and the       *)
(* response is that failure alone, whatever the handler had written.       *)
(***************************************************************************)
C7_ExceptionsContained ==
    HandlerThrew
        => /\ ~escaped
           /\ outcome.threw = "invalid_argument"
                => /\ res.status = 400
                   /\ IsFailedBody(res.body, outcome.what)
           /\ outcome.threw # "invalid_argument"
                => /\ res.status = 500
                   /\ IsFailedBody(res.body,
                                   <<"Internal server error: ">> \o outcome.what)

(***************************************************************************)
(* C8.  Every failure response of the pipeline (body parse failure,        *)
(* permission rejection, caught exception) has one body shape and the      *)
(* status of its failure class, 400, 403 or 500.                           *)
(***************************************************************************)
\* a failure the middleware answers: a gate stopped the request, or a catch
\* clause took what the handler threw
PipelineFailure == ParseFailed \/ PermissionFailed \/ (HandlerThrew /\ ~escaped)

\* the status of the failure class
FailureClassStatus ==
    CASE ParseFailed -> 400
      [] PermissionFailed -> 403
      [] HandlerThrew /\ outcome.threw = "invalid_argument" -> 400
      [] OTHER -> 500

\* as claimed: the shape is {"errorCode": <int>, "errorMessage": <string>}
C8_FailureIsErrorEnvelope ==
    PipelineFailure
        => /\ res.body.t = "object"
           /\ Keys(res.body) = <<"errorCode", "errorMessage">>
           /\ Get(res.body, "errorCode").t = "uint"
           /\ Get(res.body, "errorMessage").t = "string"
           /\ res.status = FailureClassStatus

\* as the code has it: the shape is {"status": "Failed", "error": <string>}
C8_FailureIsFailedBody ==
    PipelineFailure
        => /\ res.body.t = "object"
           /\ Keys(res.body) = <<"status", "error">>
           /\ Get(res.body, "status") = JString(<<"Failed">>)
           /\ Get(res.body, "error").t = "string"
           /\ res.status = FailureClassStatus

\* a parse failure, a permission rejection and an exception each occur; the
\* state seen here is the rejection of a parsed body
C8_Witness ==
    /\ PermissionFailed
    /\ route.bodyRequired
    /\ res.status = 403
    /\ Keys(res.body) = <<"status", "error">>

(***************************************************************************)
(* C9.  Any two requests whose required body fails to parse get the same   *)
(* status and the same body, whether the raw body was empty (nothing       *)
(* logged) or not (raw body logged), and whatever it held.                 *)
(***************************************************************************)
C9_ParseFailureResponseIsOne ==
    \A a \in parseFailures : \A b \in parseFailures : a = b

(***************************************************************************)
(* C10.  An OPTIONS request to any path gets 200 and an empty body without *)
(* going through the middleware; with CORS configured the CORS headers are *)
(* set, with CORS off the advertised method list is empty and no origin    *)
(* header is set.                                                          *)
(***************************************************************************)
OptionsHandled == Handled /\ req.method = "OPTIONS"

MethodList == "OPTIONS, GET, POST"

\* the part of the claim that holds as claimed
OptionsBasics ==
    /\ res.status = 200
    /\ res.body = NoBody
    /\ ~invoked
    /\ logged = <<IncomingLine(req)>>
    /\ m_corsHeader = ""
        => /\ HeaderValues(res, "Allow")
                \cup HeaderValues(res, "Access-Control-Allow-Methods") = {""}
           /\ "Access-Control-Allow-Origin" \notin HeaderNames(res)

\* as claimed: with CORS configured all three CORS headers are set
C10_OptionsSetsThreeCorsHeaders ==
    OptionsHandled
        => /\ OptionsBasics
           /\ m_corsHeader # ""
                => {"Access-Control-Allow-Methods", "Access-Control-Allow-Origin",
                    "Access-Control-Allow-Headers"} \subseteq HeaderNames(res)

\* as the code has it: the method list goes to Access-Control-Allow-Methods on a
\* preflight request and to Allow on any other
C10_OptionsCorsHeaders ==
    OptionsHandled
        => /\ OptionsBasics
           /\ m_corsHeader # ""
                => /\ HeaderValues(res, "Access-Control-Allow-Origin") = {m_corsHeader}
                   /\ "Access-Control-Allow-Headers" \in HeaderNames(res)
                   /\ IF "Access-Control-Request-Method" \in req.headers
                      THEN /\ HeaderValues(res, "Access-Control-Allow-Methods")
                                = {MethodList}
                           /\ "Allow" \notin HeaderNames(res)
                      ELSE /\ HeaderValues(res, "Allow") = {MethodList}
                           /\ "Access-Control-Allow-Methods" \notin HeaderNames(res)

\* CORS is configured and the OPTIONS request, with a body that is not JSON, is
\* no preflight
C10_Witness ==
    /\ OptionsHandled
    /\ m_corsHeader # ""
    /\ "Access-Control-Request-Method" \notin req.headers
    /\ ~BodyEmpty(req.body)
    /\ res.status = 200

(***************************************************************************)
(* C11.  getRandomOuts: when the request fails because of one amount, the  *)
(* response carries no output entry for any amount of the batch, also not  *)
(* for the amounts that were processed before the failing one, and the     *)
(* Ledger is not asked about any amount after the failing one.             *)
(***************************************************************************)
C11_FailureLeavesNoPartialResult ==
    (Handled /\ route.handler = "getRandomOuts" /\ invoked /\ ShortCalls # {})
        => /\ res.body.t = "object"
           /\ ~HasKey(res.body, "outs")
           /\ ~HasKey(res.body, "amount")
           /\ Keys(res.body) = <<"errorCode", "errorMessage">>
           \* the failing call is the last one made, and the calls before it
           \* are those of the amounts before it, in order
           /\ ShortCalls = {Len(calls)}
           /\ Len(calls) <= Len(req.body.doc.amounts.a)
           /\ \A i \in DOMAIN calls :
                /\ calls[i].op = "getRandomOutputs"
                /\ calls[i].amount = req.body.doc.amounts.a[i]

\* the second amount of a batch fails after the first one was served in full
C11_Witness ==
    /\ Handled /\ route.handler = "getRandomOuts" /\ invoked
    /\ Len(req.body.doc.amounts.a) = 2
    /\ req.body.doc.outs_count.n = 2
    /\ Len(calls) = 2
    /\ calls[1].success /\ Len(calls[1].indexes) = 2
    /\ ~calls[2].success
    /\ ~HasKey(res.body, "outs")

(***************************************************************************)
(* C12.  getRandomOuts: when the Ledger can serve every amount of the      *)
(* request, the response has status 200 and body status "OK"; outs has one *)
(* entry per element of amounts, in the order of amounts (duplicates       *)
(* included); each entry carries its amount and outs_count pairs of global *)
(* index and public key, in the order the Ledger returned them.            *)
(***************************************************************************)
\* the Ledger gave every getRandomOutputs call of the request what it asked for
EveryCallServed ==
    \A i \in DOMAIN calls :
        /\ calls[i].op = "getRandomOutputs"
        /\ calls[i].success
        /\ Len(calls[i].indexes) = calls[i].count

\* the response lists every amount with the outputs the Ledger returned for it
ListsEveryAmount ==
    LET amounts == req.body.doc.amounts.a
        count == req.body.doc.outs_count.n
    IN  /\ res.status = 200
        /\ res.body.t = "object"
        /\ HasKey(res.body, "status")
        /\ Get(res.body, "status") = JString(<<"OK">>)
        /\ HasKey(res.body, "outs")
        /\ LET outs == Get(res.body, "outs").a
           IN  /\ Len(outs) = Len(amounts)
               /\ Len(calls) = Len(amounts)
               /\ \A i \in DOMAIN outs :
                    /\ Get(outs[i], "amount") = JUint(amounts[i])
                    /\ LET pairs == Get(outs[i], "outs").a
                       IN  /\ Len(pairs) = count
                           /\ \A j \in DOMAIN pairs :
                                /\ Keys(pairs[j])
                                     = <<"global_amount_index", "out_key">>
                                /\ Get(pairs[j], "global_amount_index")
                                     = JUint(calls[i].indexes[j])
                                /\ Get(pairs[j], "out_key")
                                     = JString(KeyText(KeyOf(amounts[i],
                                                       calls[i].indexes[j])))

\* C12: a request the Ledger served in full is answered 200 / "OK" with one
\* entry per amount, in order, each with outs_count pairs in the Ledger's order
C12_ServedRequestListsEveryAmount ==
    (Handled /\ route.handler = "getRandomOuts" /\ HandlerReturnedNormally
        /\ EveryCallServed)
        => ListsEveryAmount

(***************************************************************************)
(* C16.  getRandomOuts: for each amount the Ledger is asked for exactly    *)
(* outs_count outputs, whatever unsigned 64-bit value outs_count has, so   *)
(* the count asked for is the count the returned number of outputs is      *)
(* compared against.                                                       *)
(***************************************************************************)
C16_LedgerAskedForOutsCount ==
    (Handled /\ route.handler = "getRandomOuts" /\ invoked)
        => \A i \in DOMAIN calls :
              calls[i].op = "getRandomOutputs"
                  => calls[i].count = req.body.doc.outs_count.n

(***************************************************************************)
(* C14.  info: height is the Ledger's top block index plus 1,              *)
(* network_height is the larger of 1 and the SyncManager's network height, *)
(* synced is true exactly when the two are equal, and hashrate is the      *)
(* difficulty for the next block divided by the target block time, rounded *)
(* as the division of two unsigned integers rounds: down to a whole number.*)
(***************************************************************************)
InfoHandled == Handled /\ route.handler = "info" /\ invoked

\* C14: height, network_height, synced and hashrate of every info response
C14_InfoDerivedFields ==
    InfoHandled
        => /\ res.body.t = "object"
           /\ \A k \in {"height", "network_height", "synced", "hashrate"} :
                HasKey(res.body, k)
           /\ Get(res.body, "height") = JUint(reads.topBlockIndex + 1)
           /\ Get(res.body, "network_height")
                = JUint(IF reads.blockchainHeight > 1
                        THEN reads.blockchainHeight ELSE 1)
           /\ Get(res.body, "synced")
                = JBool(Get(res.body, "height").n
                            = Get(res.body, "network_height").n)
           /\ Get(res.body, "hashrate").t = "uint"
           /\ LET rate == Get(res.body, "hashrate").n
              IN  /\ rate * DIFFICULTY_TARGET <= reads.difficulty
                  /\ reads.difficulty < (rate + 1) * DIFFICULTY_TARGET

\* a synced node whose difficulty is one and a half times the target time
C14_Witness ==
    /\ InfoHandled
    /\ reads.difficulty = 45
    /\ reads.topBlockIndex = 1 /\ reads.blockchainHeight = 2
    /\ Get(res.body, "hashrate") = JUint(1)
    /\ Get(res.body, "synced") = JBool(TRUE)

(***************************************************************************)
(* C15.  The middleware looks at the body before it looks at the           *)
(* permission, and calls the handler only when both gates let the request  *)
(* through: a request to a body-required route whose body does not parse   *)
(* and whose route asks for more than is configured gets the 400           *)
(* parse-failure response, never the 403 response.                         *)
(***************************************************************************)
\* the request fails both gates
FailsBothGates ==
    /\ ThroughMiddleware
    /\ route.bodyRequired /\ HasParseError(req.body)
    /\ route.routePermissions > m_rpcMode

\* C15: a request failing both gates gets the parse failure; the handler runs
\* only behind both gates
C15_ParseGateBeforePermissionGate ==
    /\ FailsBothGates
         => /\ res.status = 400
            /\ ~invoked
            /\ res.body.t = "object"
            /\ Keys(res.body) = <<"status", "error">>
            /\ Names(Get(res.body, "error").s,
                     <<"Failed to parse request body as JSON">>)
    /\ (ThroughMiddleware /\ invoked)
         => /\ ~(route.bodyRequired /\ HasParseError(req.body))
            /\ ~(route.routePermissions > m_rpcMode)

\* an unparsable body sent to a route above the configured permission
C15_Witness ==
    /\ FailsBothGates
    /\ req.body = TextBody(KeyValueText)
    /\ route.routePermissions = AllMethodsEnabled /\ m_rpcMode = Default
    /\ res.status = 400

(***************************************************************************)
(* C17.  When a CORS origin is configured, every response of the           *)
(* middleware (handler success, handler error, parse failure, permission   *)
(* failure, caught exception) carries Access-Control-Allow-Origin with the *)
(* configured origin as its one value; when no origin is configured, no    *)
(* response of the middleware carries that header.                         *)
(***************************************************************************)
C17_CorsOriginOnEveryResponse ==
    ThroughMiddleware
        => IF m_corsHeader # ""
           THEN HeaderValues(res, "Access-Control-Allow-Origin") = {m_corsHeader}
           ELSE "Access-Control-Allow-Origin" \notin HeaderNames(res)

\* a permission failure answered with the origin configured
C17_Witness ==
    /\ PermissionFailed /\ res.status = 403
    /\ m_corsHeader = "https://wallet.example"
    /\ HeaderValues(res, "Access-Control-Allow-Origin") = {"https://wallet.example"}

(***************************************************************************)
(* C18.  info, fee, height and peers only read: no such request calls the  *)
(* Ledger's pool admission or the SyncManager's relay, none changes the    *)
(* server's configuration, and each ends with a success result and status  *)
(* 200.  Pool admission and relay are called from sendTransaction only.    *)
(***************************************************************************)
ReadHandlers == {"info", "fee", "height", "peers"}

\* a request to one of the reading routes has been handled
ReadHandled == Handled /\ route.handler \in ReadHandlers

\* the handler returned success and the response is a 200
EndedInSuccess ==
    /\ invoked
    /\ outcome.threw = "none"
    /\ ~IsError(outcome.error)
    /\ outcome.statusCode = 200
    /\ res.status = 200

\* the request called pool admission or relay
Mutated ==
    \E i \in DOMAIN calls :
        calls[i].op \in {"addTransactionToPool", "relayTransactions"}

\* C18: every step that handles a reading request mutates nothing and ends in
\* success; only sendTransaction calls pool admission and relay
C18_ReadHandlersOnlyRead ==
    [][/\ ReadHandled'
            => /\ ~Mutated'
               /\ calls' = <<>>
               /\ EndedInSuccess'
               /\ UNCHANGED <<m_corsHeader, m_rpcMode, m_feeAddress, m_feeAmount>>
       /\ Mutated' => route'.handler = "sendTransaction"]_vars

\* a fee request answered by a server that charges a fee
C18_Witness ==
    /\ ReadHandled /\ route.handler = "fee"
    /\ m_feeAddress # ""
    /\ EndedInSuccess
    /\ calls = <<>>

(***************************************************************************)
(* C19.  With the route table the constructor registers, every route       *)
(* requires the lowest permission level, Default: whatever permission mode *)
(* is configured, a request to a registered route passes the permission    *)
(* gate, a 403 response is unreachable, and so the mode has no part in the *)
(* outcome of any request.                                                 *)
(***************************************************************************)
C19_RegisteredRoutesPassPermissionGate ==
    ThroughMiddleware
        => /\ route.routePermissions = Default
           \* the gate, the one place that reads the mode, passes under every mode
           /\ \A mode \in RpcModes : ~(route.routePermissions > mode)
           /\ ~PermissionFailed
           /\ stage # "permission"
           /\ res.status # 403
           /\ ~route.bodyRequired \/ ~HasParseError(req.body) => invoked

\* a server configured with the lowest mode answers /peers
C19_Witness ==
    /\ ThroughMiddleware
    /\ m_rpcMode = Default
    /\ route.handler = "peers"
    /\ invoked
    /\ res.status = 200

(***************************************************************************)
(* C13.  Whatever sequence of start() and stop() calls the owner makes     *)
(* (the destructor counting as a stop), at most one listener thread exists *)
(* at any time, and whenever stop() has returned the transport's accept    *)
(* loop is halted and the listener thread has been joined: no listener     *)
(* thread is left running.                                                 *)
(***************************************************************************)
C13_OneListenerJoinedByStop ==
    process = "up"
        => /\ Cardinality(Existing) <= 1
           /\ owner \in {"stopped", "destroyed"}
                => /\ ~is_running
                   /\ m_serverThread = 0
                   /\ Existing = {}

(***************************************************************************)
(* C20.  info: each value the handler derives by unsigned subtraction      *)
(* (tx_count, incoming_connections_count, last_known_block_index) is the   *)
(* true, non-negative difference of its operands and never wraps around,   *)
(* also when the node's other subsystems change the Ledger or PeerNet      *)
(* between the handler's reads of the two operands.                        *)
(***************************************************************************)
C20_InfoDifferencesNeverWrap ==
    InfoHandled
        => /\ Get(res.body, "tx_count")
                = JUint(reads.transactionCount - (reads.topBlockIndex + 1))
           /\ Get(res.body, "incoming_connections_count")
                = JUint(reads.connections - reads.outgoingConnections)
           /\ Get(res.body, "last_known_block_index")
                = JUint((IF reads.observedHeight > 1
                         THEN reads.observedHeight ELSE 1) - 1)

(***************************************************************************)
(* C21.  Every call of stop() eventually returns, however its steps        *)
(* interleave with those of the listener thread start() spawned, also when *)
(* stop() runs before the listener has begun to listen: the stop signal is *)
(* not lost, and the join does not wait forever.                           *)
(***************************************************************************)
\* the owner is inside stop(), called directly or by the destructor
InStop == owner \in {"stop", "destructor"}

\* stop() has returned
StopReturned == owner \in {"stopped", "destroyed"}

\* C21: a stop() that was called returns, unless the process has ended
C21_StopReturns == InStop ~> (StopReturned \/ process # "up")
====
